---- MODULE Spec2Model ----
(***************************************************************************)
(* generate_report.py: a CSV export of activities is loaded row by row     *)
(* (load_data), aggregated (calculate_statistics) and rendered to          *)
(* report.html (main).                                                     *)
(*                                                                         *)
(* Strings are sequences of one-character strings, so that the parsers of  *)
(* the source are modelled by what they do to the characters.  Python      *)
(* floats are IEEE-754 doubles: a finite double is modelled exactly, as a  *)
(* sign and a magnitude counted in units of 2^-75, the magnitude being a   *)
(* little-endian tuple of 15-bit limbs, and every float operation rounds   *)
(* to 53 significant bits, ties to even.                                   *)
(***************************************************************************)
EXTENDS Integers, Sequences, FiniteSets, TLC

-----------------------------------------------------------------------------
(* Python values *)

\* Python evaluates an expression once and binds the value to a name: F of the
\* value of v.
Bind(v, F(_)) == CHOOSE r \in {F(x) : x \in {v}} : TRUE

Bind2(v, w, F(_, _)) == CHOOSE r \in {F(x, y) : x \in {v}, y \in {w}} : TRUE

\* None, told apart from every string (a string holds one-character items)
None == <<"None">>

Digits == <<"0", "1", "2", "3", "4", "5", "6", "7", "8", "9">>

IsDigit(c) == \E i \in 1..10 : Digits[i] = c

DigitVal(c) == (CHOOSE i \in 1..10 : Digits[i] = c) - 1

RECURSIVE Pow10(_)
Pow10(k) == IF k = 0 THEN 1 ELSE 10 * Pow10(k - 1)

RECURSIVE Pow2(_)
Pow2(k) == IF k = 0 THEN 1 ELSE 2 * Pow2(k - 1)

AllDigits(s) == \A i \in 1..Len(s) : IsDigit(s[i])

\* int() of a string of digits
DigitsVal(str) ==
  Bind(str, LAMBDA s :
    LET v[i \in 0..Len(s)] == IF i = 0 THEN 0 ELSE 10 * v[i - 1] + DigitVal(s[i])
    IN  v[Len(s)])

\* str.replace(c, ""): s without the character c
Remove(s, c) == SelectSeq(s, LAMBDA x : x # c)

\* str.split(c): the pieces of s between the occurrences of c (never empty)
Split(str, c) ==
  Bind2(str, {i \in 1..Len(str) : str[i] = c}, LAMBDA s, at :
    LET n == Cardinality(at)
        \* the k-th occurrence of c, between the ends of s
        sep(k) == IF k = 0 THEN 0
                  ELSE IF k > n THEN Len(s) + 1
                  ELSE CHOOSE i \in at : Cardinality({j \in at : j < i}) = k - 1
    IN  [k \in 1..(n + 1) |-> SubSeq(s, sep(k - 1) + 1, sep(k) - 1)])

\* sub in s, for strings
Contains(sub, s) ==
  \E i \in 0..(Len(s) - Len(sub)) : SubSeq(s, i + 1, i + Len(sub)) = sub

-----------------------------------------------------------------------------
(* Python float: IEEE-754 double, round to nearest, ties to even *)

MantBits == 53
LimbBits == 15
LimbBase == Pow2(LimbBits)
\* limbs below the binary point, and limbs in all
FracLimbs == 75 \div LimbBits
NumLimbs == FracLimbs + 2

Limbs == 1..NumLimbs

MagZero == [i \in Limbs |-> 0]

MagIsZero(a) == \A i \in Limbs : a[i] = 0

\* a + b
MagAdd(x, y) ==
  Bind2(x, y, LAMBDA a, b :
    LET c[i \in 0..NumLimbs] ==
          IF i = 0 THEN 0 ELSE (a[i] + b[i] + c[i - 1]) \div LimbBase
    IN  [i \in Limbs |-> (a[i] + b[i] + c[i - 1]) % LimbBase])

\* a - b, for a >= b
MagSub(x, y) ==
  Bind2(x, y, LAMBDA a, b :
    LET w[i \in 0..NumLimbs] ==
          IF i = 0 THEN 0 ELSE IF a[i] - b[i] - w[i - 1] < 0 THEN 1 ELSE 0
    IN  [i \in Limbs |-> (a[i] - b[i] - w[i - 1] + LimbBase) % LimbBase])

\* a * n for a small integer n
MagMulSmall(x, n) ==
  Bind(x, LAMBDA a :
    LET c[i \in 0..NumLimbs] ==
          IF i = 0 THEN 0 ELSE (a[i] * n + c[i - 1]) \div LimbBase
    IN  [i \in Limbs |-> (a[i] * n + c[i - 1]) % LimbBase])

\* a < b
MagLess(a, b) ==
  \E i \in Limbs : a[i] < b[i] /\ \A j \in (i + 1)..NumLimbs : a[j] = b[j]

\* the number of significant bits of a
MagBitLen(a) ==
  IF MagIsZero(a) THEN 0
  ELSE Bind(CHOOSE i \in Limbs : a[i] # 0 /\ \A j \in (i + 1)..NumLimbs : a[j] = 0,
            LAMBDA t :
              LimbBits * (t - 1)
                + (CHOOSE k \in 1..LimbBits : Pow2(k - 1) <= a[t] /\ a[t] < Pow2(k)))

\* bit k of a (bit 0 is the lowest)
MagBit(a, k) == (a[(k \div LimbBits) + 1] \div Pow2(k % LimbBits)) % 2

\* 2^k - 1
MagOnes(k) ==
  [i \in Limbs |->
     IF LimbBits * i <= k THEN LimbBase - 1
     ELSE IF LimbBits * (i - 1) >= k THEN 0
     ELSE Pow2(k - LimbBits * (i - 1)) - 1]

\* a with its k lowest bits cleared
MagClearLow(x, k) ==
  Bind(x, LAMBDA a :
    [i \in Limbs |->
       IF LimbBits * i <= k THEN 0
       ELSE IF LimbBits * (i - 1) >= k THEN a[i]
       ELSE (a[i] \div Pow2(k - LimbBits * (i - 1))) * Pow2(k - LimbBits * (i - 1))])

MagSmall(n) == [i \in Limbs |-> IF i = 1 THEN n ELSE 0]

\* a rounded to MantBits significant bits, ties to even
MagRound(x) ==
  Bind(x, LAMBDA a :
    Bind(MagBitLen(a) - MantBits, LAMBDA drop :
      IF drop <= 0 THEN a
      ELSE MagClearLow(
             MagAdd(MagAdd(a, MagOnes(drop - 1)), MagSmall(MagBit(a, drop))), drop)))

\* floor(a / d) for a small integer d, with the lowest bit set when the division
\* is inexact (the quotient keeps more than MantBits + 2 bits, so that bit only
\* tells MagRound that the value lies above the floor)
MagDivSmall(x, d) ==
  Bind(x, LAMBDA a :
    LET r[i \in 1..(NumLimbs + 1)] ==
          IF i = NumLimbs + 1 THEN 0 ELSE (r[i + 1] * LimbBase + a[i]) % d
    IN  Bind([i \in Limbs |-> (r[i + 1] * LimbBase + a[i]) \div d], LAMBDA q :
          IF r[1] = 0 \/ q[1] % 2 = 1 THEN q ELSE [q EXCEPT ![1] = q[1] + 1]))

\* the integer n (below LimbBase^2) as a magnitude
MagOfInt(n) ==
  [i \in Limbs |->
     IF i = FracLimbs + 1 THEN n % LimbBase
     ELSE IF i = FracLimbs + 2 THEN n \div LimbBase
     ELSE 0]

\* the float of a sign and a magnitude; -0.0 = 0.0, so zero has one sign
MkFloat(neg, mag) ==
  Bind(mag, LAMBDA m : [neg |-> neg /\ ~MagIsZero(m), mag |-> m])

\* float(n) of a small integer n
FloatOfInt(n) == IF n < 0 THEN MkFloat(TRUE, MagOfInt(-n)) ELSE MkFloat(FALSE, MagOfInt(n))

FZero == FloatOfInt(0)

\* the double nearest to p / q
FloatOfRatio(neg, p, q) == MkFloat(neg, MagRound(MagDivSmall(MagOfInt(p), q)))

\* a + b
FAdd(a, b) ==
  Bind2(a, b, LAMBDA x, y :
    IF x.neg = y.neg THEN MkFloat(x.neg, MagRound(MagAdd(x.mag, y.mag)))
    ELSE IF MagLess(x.mag, y.mag) THEN MkFloat(y.neg, MagRound(MagSub(y.mag, x.mag)))
    ELSE MkFloat(x.neg, MagRound(MagSub(x.mag, y.mag))))

\* a / d for a small positive integer d
FDiv(a, d) == Bind(a, LAMBDA x : MkFloat(x.neg, MagRound(MagDivSmall(x.mag, d))))

\* n * a for a small integer n >= 0
FMulInt(n, a) == Bind(a, LAMBDA x : MkFloat(x.neg, MagRound(MagMulSmall(x.mag, n))))

\* a < b
FLess(a, b) ==
  Bind2(a, b, LAMBDA x, y :
    IF x.neg /\ ~y.neg THEN TRUE
    ELSE IF ~x.neg /\ y.neg THEN FALSE
    ELSE IF x.neg THEN MagLess(y.mag, x.mag)
    ELSE MagLess(x.mag, y.mag))

-----------------------------------------------------------------------------
(* results and exceptions *)

Ok(v) == [exc |-> "", val |-> v]

Raise(e) == [exc |-> e, val |-> None]

\* not val_str: None and the empty string are false
Falsy(s) == s = None \/ s = <<>>

Sentinel == <<"-", "-">>

\* The decimal numeral s, as float() and int() read it: an optional sign, then
\* digits with at most one point and at least one digit.  ok is FALSE where
\* they raise ValueError; p is the number without its point, k the number of
\* digits after the point.
Numeral(str) ==
  Bind(str, LAMBDA s :
    Bind(Split(IF s # <<>> /\ Head(s) = "-" THEN Tail(s) ELSE s, "."), LAMBDA parts :
      LET ip     == parts[1]
          fp     == IF Len(parts) = 2 THEN parts[2] ELSE <<>>
          digits == AllDigits(ip) /\ AllDigits(fp)
      IN  [ok    |-> Len(parts) <= 2 /\ digits /\ Len(ip) + Len(fp) >= 1,
           neg   |-> s # <<>> /\ Head(s) = "-",
           p     |-> IF digits THEN DigitsVal(ip \o fp) ELSE 0,
           k     |-> Len(fp),
           point |-> Len(parts) = 2]))

\* float(s)
float(s) ==
  Bind(Numeral(s), LAMBDA n :
    IF n.ok THEN Ok(FloatOfRatio(n.neg, n.p, Pow10(n.k))) ELSE Raise("ValueError"))

\* int(s)
int(s) ==
  Bind(Numeral(s), LAMBDA n :
    IF n.ok /\ ~n.point THEN Ok(IF n.neg THEN -n.p ELSE n.p) ELSE Raise("ValueError"))

Unquoted(s) == Remove(Remove(s, ","), "\"")

parse_float(val_str) ==
  Bind(val_str, LAMBDA v :
    IF Falsy(v) \/ v = Sentinel THEN Ok(FZero) ELSE float(Unquoted(v)))

parse_int(val_str) ==
  Bind(val_str, LAMBDA v :
    IF Falsy(v) \/ v = Sentinel THEN Ok(0) ELSE int(Split(Unquoted(v), ".")[1]))

\* timedelta: whole seconds (the days folded in) and microseconds in 0..999999
MkDelta(sec, us) == [sec |-> sec + (us \div 1000000), us |-> us % 1000000]

DeltaZero == MkDelta(0, 0)

DeltaAdd(a, b) == Bind2(a, b, LAMBDA x, y : MkDelta(x.sec + y.sec, x.us + y.us))

\* timedelta of the float read from the numeral n, counted mult seconds each:
\* the numerals of the model have at most six digits after the point, for which
\* the microseconds of the double are those of the decimal
DeltaOf(n, mult) ==
  Bind2((n.p * mult) \div Pow10(n.k), ((n.p * mult) % Pow10(n.k)) * Pow10(6 - n.k),
        LAMBDA sec, us : IF n.neg THEN MkDelta(-sec, -us) ELSE MkDelta(sec, us))

parse_duration(duration_str) ==
  Bind(duration_str, LAMBDA d :
    IF Falsy(d) \/ d = Sentinel THEN Ok(DeltaZero)
    ELSE Bind([i \in 1..Len(Split(d, ":")) |-> Numeral(Split(d, ":")[i])], LAMBDA n :
           IF Len(n) = 3
           THEN IF n[1].ok /\ n[2].ok /\ n[3].ok
                THEN Ok(DeltaAdd(DeltaOf(n[1], 3600),
                                 DeltaAdd(DeltaOf(n[2], 60), DeltaOf(n[3], 1))))
                ELSE Raise("ValueError")
           ELSE IF Len(n) = 2
           THEN IF n[1].ok /\ n[2].ok
                THEN Ok(DeltaAdd(DeltaOf(n[1], 60), DeltaOf(n[2], 1)))
                ELSE Raise("ValueError")
           ELSE Ok(DeltaZero)))

\* a float or None
Some(x) == [none |-> FALSE, val |-> x]

NoFloat == [none |-> TRUE, val |-> FZero]

\* the decimal minutes of a pace, or None
parse_pace_decimal(pace_str) ==
  Bind(pace_str, LAMBDA p :
    IF Falsy(p) \/ p = Sentinel THEN NoFloat
    ELSE Bind(Split(p, ":"), LAMBDA parts :
           IF Len(parts) = 2
           THEN Bind2(float(parts[1]), float(parts[2]), LAMBDA m, s :
                  IF m.exc = "" /\ s.exc = ""
                  THEN Some(FAdd(m.val, FDiv(s.val, 60)))
                  ELSE NoFloat)
           ELSE NoFloat))

\* the truth value of a float or None: None and 0.0 are false
Truthy(x) == ~x.none /\ x.val # FZero

-----------------------------------------------------------------------------
(* datetime *)

IsLeap(y) == (y % 4 = 0 /\ y % 100 # 0) \/ y % 400 = 0

DaysIn(y, m) ==
  IF m = 2 THEN (IF IsLeap(y) THEN 29 ELSE 28)
  ELSE IF m \in {4, 6, 9, 11} THEN 30 ELSE 31

\* a run of one or two digits
Short(t) == Len(t) \in {1, 2} /\ AllDigits(t)

\* The pieces of a date string around its separators: c between the colons, a
\* between the hyphens before the first colon, w between the spaces that part
\* the day from the hour; %d also takes a space before one digit.
DatePieces(s) ==
  Bind(Split(s, ":"), LAMBDA c :
    Bind(Split(c[1], "-"), LAMBDA a :
      LET dh     == a[Len(a)]
          padded == Len(a) = 3 /\ Len(dh) >= 2 /\ dh[1] = " " /\ IsDigit(dh[2])
      IN  [c |-> c, a |-> a, padded |-> padded,
           w |-> Split(IF padded THEN Tail(dh) ELSE dh, " ")]))

\* datetime.strptime(s, "%Y-%m-%d %H:%M:%S")
strptime(s) ==
  IF s = None THEN Raise("TypeError")
  ELSE Bind(DatePieces(s), LAMBDA p :
    LET c  == p.c
        a  == p.a
        w  == p.w
        dd == w[1]
        hh == w[Len(w)]
        shape ==
          /\ Len(c) = 3 /\ Len(a) = 3
          /\ Len(a[1]) = 4 /\ AllDigits(a[1])
          /\ Short(a[2])
          /\ Len(w) >= 2 /\ \A i \in 2..(Len(w) - 1) : w[i] = <<>>
          /\ Short(dd) /\ (p.padded => Len(dd) = 1)
          /\ Short(hh) /\ Short(c[2]) /\ Short(c[3])
    IN  IF shape
        THEN Bind(<<DigitsVal(a[1]), DigitsVal(a[2]), DigitsVal(dd), DigitsVal(hh),
                    DigitsVal(c[2]), DigitsVal(c[3])>>, LAMBDA t :
               IF /\ t[1] >= 1 /\ t[2] \in 1..12 /\ t[3] >= 1 /\ t[3] <= DaysIn(t[1], t[2])
                  /\ t[4] <= 23 /\ t[5] <= 59 /\ t[6] <= 59
               THEN Ok(t)
               ELSE Raise("ValueError"))
        ELSE Raise("ValueError"))

\* dt1 < dt2
DateLess(x, y) ==
  \E i \in 1..6 : x[i] < y[i] /\ \A j \in 1..(i - 1) : x[j] = y[j]

\* str(n), for n >= 0
RECURSIVE Str(_)
Str(n) == IF n < 10 THEN <<Digits[n + 1]>> ELSE Str(n \div 10) \o <<Digits[(n % 10) + 1]>>

Str2(n) == <<Digits[(n \div 10) + 1], Digits[(n % 10) + 1]>>

\* dt.strftime("%Y-%m"): the C library does not pad the year
strftime_month(dt) == Str(dt[1]) \o <<"-">> \o Str2(dt[2])

\* dt.strftime("%Y-%m-%d")
strftime_day(dt) == strftime_month(dt) \o <<"-">> \o Str2(dt[3])

-----------------------------------------------------------------------------
(* csv.DictReader *)

Range(f) == {f[i] : i \in DOMAIN f}

\* the dict of one line: a column past the end of the line holds None
DictRow(fieldnames, line) ==
  [c \in Range(fieldnames) |->
     LET i == CHOOSE j \in 1..Len(fieldnames) :
                fieldnames[j] = c /\ \A k \in (j + 1)..Len(fieldnames) : fieldnames[k] # c
     IN  IF i <= Len(line) THEN line[i] ELSE None]

\* row.get(key, default)
Get(row, key, default) == IF key \in DOMAIN row THEN row[key] ELSE default

-----------------------------------------------------------------------------
(* load_data *)

TrackRunning == <<"T", "r", "a", "c", "k", " ", "R", "u", "n", "n", "i", "n", "g">>

Running == <<"R", "u", "n", "n", "i", "n", "g">>

Unknown == <<"U", "n", "k", "n", "o", "w", "n">>

Thousand == FloatOfInt(1000)

\* normalize_distance with the test distance >= 1000 in place of distance > 1000
normalize_distance_at_1000(type, distance) ==
  IF type = TrackRunning THEN FDiv(distance, 1000)
  ELSE IF ~FLess(distance, Thousand) THEN FDiv(distance, 1000)
  ELSE distance

\* the distance in kilometres
normalize_distance(type, distance) ==
  IF type = TrackRunning THEN FDiv(distance, 1000)
  ELSE IF FLess(Thousand, distance) THEN FDiv(distance, 1000)
  ELSE distance

ZeroTime == <<"0", "0", ":", "0", "0", ":", "0", "0">>

\* The body of the loop over the rows: the activity of the row, or the
\* exception it raises.  The parsers run in the order of the dict display and
\* all raise ValueError; strptime runs after them.  parsed holds distance,
\* calories, time, avg_hr, max_hr, ascent, descent, avg_cadence, max_cadence.
load_row(csv_row) ==
  Bind(csv_row, LAMBDA row :
    Bind2(<<parse_float(Get(row, "Distance", <<"0">>)),
            parse_int(Get(row, "Calories", <<"0">>)),
            parse_duration(Get(row, "Time", ZeroTime)),
            parse_int(Get(row, "Avg HR", <<"0">>)),
            parse_int(Get(row, "Max HR", <<"0">>)),
            parse_int(Get(row, "Total Ascent", <<"0">>)),
            parse_int(Get(row, "Total Descent", <<"0">>)),
            parse_int(Get(row, "Avg Run Cadence", <<"0">>)),
            parse_int(Get(row, "Max Run Cadence", <<"0">>))>>,
          strptime(Get(row, "Date", None)),
          LAMBDA parsed, dt :
      IF \E i \in 1..Len(parsed) : parsed[i].exc # "" THEN Raise("ValueError")
      ELSE IF dt.exc # "" THEN Raise(dt.exc)
      ELSE Ok([type         |-> Get(row, "Activity Type", Unknown),
               date         |-> Get(row, "Date", None),
               title        |-> Get(row, "Title", None),
               distance     |-> normalize_distance(Get(row, "Activity Type", Unknown),
                                                   parsed[1].val),
               calories     |-> parsed[2].val,
               time_str     |-> Get(row, "Time", ZeroTime),
               time         |-> parsed[3].val,
               avg_hr       |-> parsed[4].val,
               max_hr       |-> parsed[5].val,
               ascent       |-> parsed[6].val,
               descent      |-> parsed[7].val,
               avg_cadence  |-> parsed[8].val,
               max_cadence  |-> parsed[9].val,
               avg_pace     |-> Get(row, "Avg Pace", Sentinel),
               best_pace    |-> Get(row, "Best Pace", Sentinel),
               date_obj     |-> dt.val,
               date_display |-> strftime_day(dt.val)])))

-----------------------------------------------------------------------------
(* sorted(): a stable sort *)

\* x put into the sorted indices s, behind every index that is not above it
RECURSIVE InsertIdx(_, _, _)
InsertIdx(x, s, lt) ==
  Bind(s, LAMBDA t :
    IF t = <<>> THEN <<x>>
    ELSE IF lt[<<x, Head(t)>>] THEN <<x>> \o t
    ELSE <<Head(t)>> \o InsertIdx(x, Tail(t), lt))

\* the indices 1..n in the order of lt, equal ones in their own order
RECURSIVE SortIdx(_, _)
SortIdx(n, lt) == IF n = 0 THEN <<>> ELSE InsertIdx(n, SortIdx(n - 1, lt), lt)

\* seq in the order of lt on its indices, equal items in their own order
Sorted(seq, lt) ==
  Bind(SortIdx(Len(seq), lt), LAMBDA idx : [k \in 1..Len(seq) |-> seq[idx[k]]])

\* the pairs of indices of a list
Pairs(seq) == (1..Len(seq)) \X (1..Len(seq))

\* sorted(activities, key=lambda x: x["date_obj"])
sorted_by_date(activities) ==
  Bind([p \in Pairs(activities) |->
          DateLess(activities[p[1]].date_obj, activities[p[2]].date_obj)],
       LAMBDA lt : Sorted(activities, lt))

\* sorted(activities, key=lambda x: x["date_obj"], reverse=True)
sorted_by_date_desc(activities) ==
  Bind([p \in Pairs(activities) |->
          DateLess(activities[p[2]].date_obj, activities[p[1]].date_obj)],
       LAMBDA lt : Sorted(activities, lt))

\* sorted_dist as the ascending sort read backwards, which turns ties around
sorted_dist_reversed(activities) ==
  Bind([p \in Pairs(activities) |->
          FLess(activities[p[1]].distance, activities[p[2]].distance)],
       LAMBDA lt :
         Bind(Sorted(activities, lt), LAMBDA up :
           [k \in 1..Len(up) |-> up[Len(up) + 1 - k]]))

\* sorted(activities, key=lambda x: x["distance"], reverse=True)
sorted_dist(activities) ==
  Bind([p \in Pairs(activities) |->
          FLess(activities[p[2]].distance, activities[p[1]].distance)],
       LAMBDA lt : Sorted(activities, lt))

\* sorted(activities, key=lambda x: x["ascent"], reverse=True)
sorted_ascent(activities) ==
  Bind([p \in Pairs(activities) |-> activities[p[2]].ascent < activities[p[1]].ascent],
       LAMBDA lt : Sorted(activities, lt))

\* s[:5]
TopLen == 5

Top(s) == SubSeq(s, 1, IF Len(s) < TopLen THEN Len(s) ELSE TopLen)

-----------------------------------------------------------------------------
(* calculate_statistics *)

\* A dict is the sequence of its entries in insertion order.
KeyIndex(d, key) ==
  IF \E i \in 1..Len(d) : d[i].key = key
  THEN CHOOSE i \in 1..Len(d) : d[i].key = key
  ELSE 0

Keys(d) == {d[i].key : i \in 1..Len(d)}

\* stats["total_distance"] after the first n activities
RECURSIVE total_distance(_, _)
total_distance(activities, n) ==
  IF n = 0 THEN FZero
  ELSE FAdd(total_distance(activities, n - 1), activities[n].distance)

RECURSIVE total_duration(_, _)
total_duration(activities, n) ==
  IF n = 0 THEN DeltaZero
  ELSE DeltaAdd(total_duration(activities, n - 1), activities[n].time)

RECURSIVE total_calories(_, _)
total_calories(activities, n) ==
  IF n = 0 THEN 0 ELSE total_calories(activities, n - 1) + activities[n].calories

\* stats["activity_types"] after the first n activities
RECURSIVE activity_types(_, _)
activity_types(activities, n) ==
  IF n = 0 THEN <<>>
  ELSE Bind2(activities[n], activity_types(activities, n - 1), LAMBDA act, d0 :
         Bind(IF KeyIndex(d0, act.type) = 0
              THEN Append(d0, [key |-> act.type, count |-> 0,
                               distance |-> FZero, duration |-> DeltaZero])
              ELSE d0, LAMBDA d1 :
           Bind(KeyIndex(d1, act.type), LAMBDA j :
             [d1 EXCEPT ![j] = [key      |-> act.type,
                                count    |-> d1[j].count + 1,
                                distance |-> FAdd(d1[j].distance, act.distance),
                                duration |-> DeltaAdd(d1[j].duration, act.time)]])))

\* stats["monthly"] after the first n activities (n >= 1)
RECURSIVE monthly(_, _)
monthly(activities, n) ==
  IF n = 0 THEN <<>>
  ELSE Bind2(activities[n], monthly(activities, n - 1), LAMBDA act, d0 :
         Bind(strftime_month(act.date_obj), LAMBDA key :
           Bind(IF KeyIndex(d0, key) = 0 THEN Append(d0, [key |-> key, val |-> FZero])
                ELSE d0, LAMBDA d1 :
             Bind(KeyIndex(d1, key), LAMBDA j :
               [d1 EXCEPT ![j] = [key |-> key, val |-> FAdd(d1[j].val, act.distance)]]))))

\* the cumulative series over the activities in date order
cumulative(activities) ==
  Bind(sorted_by_date(activities), LAMBDA sorted_acts :
    [i \in 1..Len(sorted_acts) |->
       [date  |-> sorted_acts[i].date_display,
        total |-> total_distance(sorted_acts, i)]])

\* "Running" in act["type"]
IsRunning(act) == Contains(Running, act.type)

\* the test of line 148
InScatter(act) ==
  Truthy(parse_pace_decimal(act.avg_pace)) /\ act.avg_hr > 0 /\ IsRunning(act)

RECURSIVE scatter_data(_, _)
scatter_data(activities, n) ==
  IF n = 0 THEN <<>>
  ELSE Bind2(activities[n], scatter_data(activities, n - 1), LAMBDA act, rest :
         IF InScatter(act)
         THEN Append(rest, [x     |-> parse_pace_decimal(act.avg_pace).val,
                            y     |-> act.avg_hr,
                            type  |-> act.type,
                            title |-> act.title,
                            date  |-> act.date_display])
         ELSE rest)

\* the bucket of a cadence: 0 for none, then 1..5 for "< 150" .. "180+"
cadence_bucket(act) ==
  LET cad == act.avg_cadence
  IN  IF cad > 0 /\ IsRunning(act)
      THEN IF cad < 150 THEN 1
           ELSE IF 150 <= cad /\ cad < 160 THEN 2
           ELSE IF 160 <= cad /\ cad < 170 THEN 3
           ELSE IF 170 <= cad /\ cad < 180 THEN 4
           ELSE 5
      ELSE 0

max_hr == 182
rest_hr == 50
hrr == max_hr - rest_hr

\* (hrr * 0.50) + rest_hr, and so on: tenths is 5 for 0.50
z_low(tenths) == FAdd(FMulInt(hrr, FloatOfRatio(FALSE, tenths, 10)), FloatOfInt(rest_hr))

z1_low == z_low(5)
z2_low == z_low(6)
z3_low == z_low(7)
z4_low == z_low(8)
z5_low == z_low(9)

\* hr_zone with the test hr >= 40 in place of hr > 40
hr_zone_from_40(act) ==
  LET hr == FloatOfInt(act.avg_hr)
  IN  IF act.avg_hr > 0 /\ IsRunning(act)
      THEN IF FLess(hr, z1_low) THEN (IF act.avg_hr >= 40 THEN 1 ELSE 0)
           ELSE IF ~FLess(hr, z1_low) /\ FLess(hr, z2_low) THEN 1
           ELSE IF ~FLess(hr, z2_low) /\ FLess(hr, z3_low) THEN 2
           ELSE IF ~FLess(hr, z3_low) /\ FLess(hr, z4_low) THEN 3
           ELSE IF ~FLess(hr, z4_low) /\ FLess(hr, z5_low) THEN 4
           ELSE 5
      ELSE 0

\* the zone of an activity: 0 for none, then 1..5 for Z1..Z5
hr_zone(act) ==
  LET hr == FloatOfInt(act.avg_hr)
  IN  IF act.avg_hr > 0 /\ IsRunning(act)
      THEN IF FLess(hr, z1_low) THEN (IF act.avg_hr > 40 THEN 1 ELSE 0)
           ELSE IF ~FLess(hr, z1_low) /\ FLess(hr, z2_low) THEN 1
           ELSE IF ~FLess(hr, z2_low) /\ FLess(hr, z3_low) THEN 2
           ELSE IF ~FLess(hr, z3_low) /\ FLess(hr, z4_low) THEN 3
           ELSE IF ~FLess(hr, z4_low) /\ FLess(hr, z5_low) THEN 4
           ELSE 5
      ELSE 0

\* the counts of a histogram with five buckets
Histogram(buckets) ==
  [b \in 1..5 |-> Cardinality({i \in 1..Len(buckets) : buckets[i] = b})]

\* "Running" in None, which raises TypeError, is evaluated for this activity
InNone(act) ==
  /\ act.type = None
  /\ \/ Truthy(parse_pace_decimal(act.avg_pace)) /\ act.avg_hr > 0
     \/ act.avg_cadence > 0
     \/ act.avg_hr > 0

calculate_statistics(activities) ==
  LET n     == Len(activities)
      stats == [total_distance   |-> total_distance(activities, n),
                total_duration   |-> total_duration(activities, n),
                total_calories   |-> total_calories(activities, n),
                total_activities |-> n,
                activity_types   |-> activity_types(activities, n),
                cumulative       |-> cumulative(activities),
                scatter_data     |-> scatter_data(activities, n),
                cadence_dist     |-> Histogram([i \in 1..n |-> cadence_bucket(activities[i])]),
                top_distance     |-> Top(sorted_dist(activities)),
                top_climb        |-> Top(sorted_ascent(activities)),
                hr_zones         |-> Histogram([i \in 1..n |-> hr_zone(activities[i])])]
  IN  IF \E i \in 1..n : InNone(activities[i]) THEN Raise("TypeError")
      ELSE IF n = 0 THEN Ok(stats)
      ELSE Ok([monthly |-> monthly(activities, n)] @@ stats)

-----------------------------------------------------------------------------
(* main *)

VARIABLES
  pc,          \* the statement of main that runs next, "done" or "failed"
  fieldnames,  \* the header row of the CSV file
  lines,       \* the lines of the CSV file after the header
  pos,         \* the number of lines the reader has yielded
  activities,  \* the list built by load_data, later sorted by main
  skipped,     \* the lines whose "Skipping row" diagnostic was printed
  stats,       \* the dict returned by calculate_statistics
  output_html, \* what template.render was given and returned, or None
  report,      \* report.html: "untouched", "empty" (opened for writing) or "written"
  confirmed,   \* "Report generated: report.html" was printed
  error        \* the exception that ended the run and the statement that raised it

vars == <<pc, fieldnames, lines, pos, activities, skipped, stats, output_html,
          report, confirmed, error>>

NoError == [at |-> "", exc |-> ""]

\* main_next with report.html opened before the template is rendered
main_next_open_first(step) ==
  CASE step = "parse_args"           -> "open_csv"
    [] step = "open_csv"             -> "load_data"
    [] step = "load_data"            -> "calculate_statistics"
    [] step = "calculate_statistics" -> "sort"
    [] step = "sort"                 -> "get_template"
    [] step = "get_template"         -> "open_report"
    [] step = "open_report"          -> "render"
    [] step = "render"               -> "write"
    [] step = "write"                -> "print"
    [] step = "print"                -> "done"

\* the statements of main in the order it runs them
main_next(step) ==
  CASE step = "parse_args"           -> "open_csv"
    [] step = "open_csv"             -> "load_data"
    [] step = "load_data"            -> "calculate_statistics"
    [] step = "calculate_statistics" -> "sort"
    [] step = "sort"                 -> "get_template"
    [] step = "get_template"         -> "render"
    [] step = "render"               -> "open_report"
    [] step = "open_report"          -> "write"
    [] step = "write"                -> "print"
    [] step = "print"                -> "done"

Fail(exc) ==
  /\ pc' = "failed"
  /\ error' = [at |-> pc, exc |-> exc]

Go ==
  /\ pc' = main_next(pc)
  /\ error' = error

\* parser.parse_args(): the path is given, or argparse exits
ParseArgs ==
  /\ pc = "parse_args"
  /\ \/ Go
     \/ Fail("SystemExit")
  /\ UNCHANGED <<fieldnames, lines, pos, activities, skipped, stats, output_html,
                 report, confirmed>>

\* open(filepath, 'r'): the file opens, or OSError
OpenCsv ==
  /\ pc = "open_csv"
  /\ \/ Go
     \/ Fail("OSError")
  /\ UNCHANGED <<fieldnames, lines, pos, activities, skipped, stats, output_html,
                 report, confirmed>>

\* one turn of the loop over the reader
ReadRow ==
  /\ pc = "load_data"
  /\ pos < Len(lines)
  /\ \E r \in {load_row(DictRow(fieldnames, lines[pos + 1]))} :
         /\ pos' = pos + 1
         /\ IF r.exc = ""
            THEN /\ activities' = Append(activities, r.val)
                 /\ UNCHANGED <<skipped, pc, error>>
            ELSE IF r.exc = "ValueError"
            THEN /\ skipped' = Append(skipped, pos + 1)
                 /\ UNCHANGED <<activities, pc, error>>
            ELSE /\ Fail(r.exc)
                 /\ UNCHANGED <<activities, skipped>>
  /\ UNCHANGED <<fieldnames, lines, stats, output_html, report, confirmed>>

\* the reader is exhausted: load_data returns
EndOfFile ==
  /\ pc = "load_data"
  /\ pos = Len(lines)
  /\ Go
  /\ UNCHANGED <<fieldnames, lines, pos, activities, skipped, stats, output_html,
                 report, confirmed>>

CalculateStatistics ==
  /\ pc = "calculate_statistics"
  /\ \E r \in {calculate_statistics(activities)} :
         IF r.exc = ""
         THEN stats' = r.val /\ Go
         ELSE stats' = stats /\ Fail(r.exc)
  /\ UNCHANGED <<fieldnames, lines, pos, activities, skipped, output_html, report,
                 confirmed>>

\* activities.sort(key=lambda x: x["date_obj"], reverse=True)
SortActivities ==
  /\ pc = "sort"
  /\ activities' = sorted_by_date_desc(activities)
  /\ Go
  /\ UNCHANGED <<fieldnames, lines, pos, skipped, stats, output_html, report,
                 confirmed>>

\* env.get_template('template.html'): the template loads, or jinja2 raises
GetTemplate ==
  /\ pc = "get_template"
  /\ \/ Go
     \/ Fail("TemplateError")
  /\ UNCHANGED <<fieldnames, lines, pos, activities, skipped, stats, output_html,
                 report, confirmed>>

\* template.render(...): the document of these activities and stats, or jinja2 raises
Render ==
  /\ pc = "render"
  /\ \/ output_html' = <<activities, stats>> /\ Go
     \/ output_html' = output_html /\ Fail("TemplateError")
  /\ UNCHANGED <<fieldnames, lines, pos, activities, skipped, stats, report, confirmed>>

\* open('report.html', 'w'): the file is created or truncated, or OSError
OpenReport ==
  /\ pc = "open_report"
  /\ \/ report' = "empty" /\ Go
     \/ report' = report /\ Fail("OSError")
  /\ UNCHANGED <<fieldnames, lines, pos, activities, skipped, stats, output_html,
                 confirmed>>

\* f.write(output_html), or OSError
WriteReport ==
  /\ pc = "write"
  /\ \/ report' = "written" /\ Go
     \/ report' = report /\ Fail("OSError")
  /\ UNCHANGED <<fieldnames, lines, pos, activities, skipped, stats, output_html,
                 confirmed>>

PrintConfirmation ==
  /\ pc = "print"
  /\ confirmed' = TRUE
  /\ Go
  /\ UNCHANGED <<fieldnames, lines, pos, activities, skipped, stats, output_html,
                 report>>

Next ==
  \/ ParseArgs
  \/ OpenCsv
  \/ ReadRow
  \/ EndOfFile
  \/ CalculateStatistics
  \/ SortActivities
  \/ GetTemplate
  \/ Render
  \/ OpenReport
  \/ WriteReport
  \/ PrintConfirmation

\* every sequence over S of length at most n
SeqsUpTo(S, n) == UNION {[1..k -> S] : k \in 0..n}

\* main starts on a file with one of the headers hs and at most n of the lines ls
InitOn(hs, ls, n) ==
  /\ pc = "parse_args"
  /\ fieldnames \in hs
  /\ lines \in SeqsUpTo(ls, n)
  /\ pos = 0
  /\ activities = <<>>
  /\ skipped = <<>>
  /\ stats = <<>>
  /\ output_html = None
  /\ report = "untouched"
  /\ confirmed = FALSE
  /\ error = NoError

-----------------------------------------------------------------------------
(* the files the model is run on *)

Cycling == <<"C", "y", "c", "l", "i", "n", "g">>

TrailRunning == <<"T", "r", "a", "i", "l", " ", "R", "u", "n", "n", "i", "n", "g">>

\* 2024-01-15 10:00:00
Jan15 == <<"2", "0", "2", "4", "-", "0", "1", "-", "1", "5", " ", "1", "0", ":", "0", "0", ":", "0", "0">>

\* 2024-01-10 08:00:00
Jan10 == <<"2", "0", "2", "4", "-", "0", "1", "-", "1", "0", " ", "0", "8", ":", "0", "0", ":", "0", "0">>

\* 2024-02-01 09:00:00
Feb01 == <<"2", "0", "2", "4", "-", "0", "2", "-", "0", "1", " ", "0", "9", ":", "0", "0", ":", "0", "0">>

\* 2024-02-30 10:00:00
Feb30 == <<"2", "0", "2", "4", "-", "0", "2", "-", "3", "0", " ", "1", "0", ":", "0", "0", ":", "0", "0">>

\* the columns of the export that the program reads
GarminHeader ==
  <<"Activity Type", "Date", "Title", "Distance", "Calories", "Time", "Avg HR",
    "Total Ascent", "Avg Run Cadence", "Avg Pace">>

\* the same export without its Date column
NoDateHeader ==
  <<"Activity Type", "Start", "Title", "Distance", "Calories", "Time", "Avg HR",
    "Total Ascent", "Avg Run Cadence", "Avg Pace">>

Line(type, date, title, distance, calories, time, avg_hr, ascent, cadence, pace) ==
  <<type, date, title, distance, calories, time, avg_hr, ascent, cadence, pace>>

\* a tenth of a kilometre, run
RunTenth ==
  Line(Running, Jan15, <<"a">>,
       <<"0", ".", "1">>, <<"1", "0", "0">>, <<"0", "1", ":", "0", "2", ":", "0", "3">>,
       <<"1", "5", "0">>, <<"1", "0">>, <<"1", "7", "0">>, <<"5", ":", "3", "0">>)

\* a tenth of a kilometre, cycled in another month
RideTenth ==
  Line(Cycling, Feb01, <<"b">>,
       <<"0", ".", "1">>, <<"1", ",", "2", "3", "4">>, <<"0", "2", ":", "0", "3">>,
       <<"0">>, <<"2", "5", "0">>, <<"0">>, <<"-", "-">>)

\* 1500 m run earlier, at a pace of 0:00
RunMetres ==
  Line(Running, Jan10, <<"c">>,
       <<"1", ",", "5", "0", "0">>, <<"1", "2", ".", "7">>, <<"-", "-">>,
       <<"1", "1", "6">>, <<"1", "0">>, <<"1", "8", "0">>, <<"0", ":", "0", "0">>)

\* 500 m on the track
TrackHalf ==
  Line(TrackRunning, Jan15, <<"d">>,
       <<"5", "0", "0">>, <<"-", "-">>, <<"1", ":", "2", ":", "3", ":", "4">>,
       <<"1", "2", "9">>, <<"0">>, <<"1", "4", "9">>, <<"4", ":", "1", "5">>)

\* exactly 1000
RideThousand ==
  Line(Cycling, Jan15, <<"e">>,
       <<"1", "0", "0", "0">>, <<"0">>, <<"1", "0", ":", "0", "0">>,
       <<"0">>, <<"1", ",", "0", "0", "0">>, <<"0">>, <<>>)

\* a Distance that is no number
BadDistance ==
  Line(Running, Jan15, <<"f">>,
       <<"x">>, <<"1", "0", "0">>, <<"3", "0", ":", "0", "0">>,
       <<"1", "5", "0">>, <<"1", "0">>, <<"1", "7", "0">>, <<"5", ":", "3", "0">>)

\* a Date that is no date
BadDate ==
  Line(Running, Feb30, <<"g">>,
       <<"5">>, <<"1", "0", "0">>, <<"3", "0", ":", "0", "0">>,
       <<"1", "5", "0">>, <<"1", "0">>, <<"1", "7", "0">>, <<"5", ":", "3", "0">>)

\* a negative Distance
NegativeRun ==
  Line(Running, Feb01, <<"h">>,
       <<"-", "5">>, <<"1", "0", "0">>, <<"3", "0", ":", "0", "0">>,
       <<"1", "5", "0">>, <<"1", "0">>, <<"1", "7", "0">>, <<"5", ":", "3", "0">>)

\* a line that ends before its Date
ShortLine == <<Running>>

\* the files of the loading claims: with and without a Date column
LoadLines == {RunMetres, TrackHalf, RideThousand, BadDistance, BadDate, ShortLine}

MaxRows == 3

Init == InitOn({GarminHeader, NoDateHeader}, LoadLines, MaxRows)

Spec == Init /\ [][Next]_vars

\* the files of the claims about sums and series
StatLines == {RunTenth, RideTenth, RunMetres, NegativeRun}

MaxStatRows == 3

InitStats == InitOn({GarminHeader}, StatLines, MaxStatRows)

SpecStats == InitStats /\ [][Next]_vars

\* the files of the leaderboards: ties in distance and in ascent
TopLine(type, date, title, distance, ascent) ==
  Line(type, date, title, distance, <<"0">>, <<"3", "0", ":", "0", "0">>,
       <<"0">>, ascent, <<"0">>, <<"-", "-">>)

TopLines ==
  { TopLine(Running, Jan15, <<"a">>, <<"5">>, <<"1", "0">>),
    TopLine(Cycling, Jan10, <<"b">>, <<"5">>, <<"2", "0">>),
    TopLine(Running, Feb01, <<"c">>, <<"3">>, <<"2", "0">>) }

MaxTopRows == 6

InitTop == InitOn({GarminHeader}, TopLines, MaxTopRows)

SpecTop == InitTop /\ [][Next]_vars

\* the files of the heart-rate zones: the rates around every bound
ZoneLine(type, avg_hr) ==
  Line(type, Jan15, <<"z">>, <<"5">>, <<"0">>, <<"3", "0", ":", "0", "0">>,
       avg_hr, <<"0">>, <<"0">>, <<"-", "-">>)

ZoneRates == {40, 41, 115, 116, 129, 130, 142, 143, 155, 156, 168, 169}

ZoneLines ==
  {ZoneLine(Running, Str(h)) : h \in ZoneRates}
    \cup {ZoneLine(Cycling, Str(150)), ZoneLine(TrailRunning, Str(169))}

MaxZoneRows == 2

InitZones == InitOn({GarminHeader}, ZoneLines, MaxZoneRows)

SpecZones == InitZones /\ [][Next]_vars

-----------------------------------------------------------------------------
(* properties of load_data *)

\* the dict of the i-th line of the file
RowAt(i) == DictRow(fieldnames, lines[i])

\* every field of the row parses: no parser and no strptime raises
FieldsParse(row) ==
  /\ parse_float(Get(row, "Distance", <<"0">>)).exc = ""
  /\ parse_int(Get(row, "Calories", <<"0">>)).exc = ""
  /\ parse_duration(Get(row, "Time", ZeroTime)).exc = ""
  /\ parse_int(Get(row, "Avg HR", <<"0">>)).exc = ""
  /\ parse_int(Get(row, "Total Ascent", <<"0">>)).exc = ""
  /\ parse_int(Get(row, "Avg Run Cadence", <<"0">>)).exc = ""
  /\ strptime(Get(row, "Date", None)).exc = ""

\* the numbers of the lines read so far whose fields all parse, in file order
ParsedSoFar == SelectSeq([i \in 1..pos |-> i], LAMBDA i : FieldsParse(RowAt(i)))

\* the Date of the row is missing or is no date
BadDateRow(row) == strptime(Get(row, "Date", None)).exc # ""

\* i is a member of the sequence s
Member(i, s) == \E k \in 1..Len(s) : s[k] = i

\* C1: load_data returns exactly the rows whose fields all parse, in input
\* order; a row with a failing field is dropped, the rows after it are still
\* read, and no row ends the run.
C1_KeepsExactlyTheRowsThatParse ==
  /\ error.at # "load_data"
  /\ pc \in {"load_data", "calculate_statistics"} =>
       /\ Len(activities) = Len(ParsedSoFar)
       /\ \A k \in 1..Len(activities) :
            /\ activities[k].title = Get(RowAt(ParsedSoFar[k]), "Title", None)
            /\ activities[k].date = Get(RowAt(ParsedSoFar[k]), "Date", None)
       /\ \A i \in 1..pos : ~FieldsParse(RowAt(i)) => Member(i, skipped)
  /\ pc = "calculate_statistics" => pos = Len(lines)

\* C2: a row whose Date is missing or is not YYYY-MM-DD HH:MM:SS is dropped
\* and loading goes on with the next row: every such row that was read is among
\* the skipped rows and none of them ended the run.
C2_BadDateIsRowLevel ==
  \A i \in 1..pos :
    BadDateRow(RowAt(i)) =>
      /\ Member(i, skipped)
      /\ ~(pc = "failed" /\ error.at = "load_data" /\ i = pos)

\* the raw Distance of the row is above 1000, read off its decimal numeral
RawAbove1000(row) ==
  LET n == Numeral(Unquoted(Get(row, "Distance", <<"0">>)))
  IN  ~n.neg /\ n.p > 1000 * Pow10(n.k)

\* the distance C3 states for a kept row
StatedDistance(row) ==
  LET raw == parse_float(Get(row, "Distance", <<"0">>)).val
  IN  IF Get(row, "Activity Type", Unknown) = TrackRunning THEN FDiv(raw, 1000)
      ELSE IF RawAbove1000(row) THEN FDiv(raw, 1000)
      ELSE raw

\* C3: every kept row stores raw/1000 when its type is exactly "Track Running",
\* raw/1000 when its type is another one and raw > 1000, and raw itself when
\* its type is another one and raw <= 1000.
C3_DistanceNormalizedOnce ==
  pc \in {"load_data", "calculate_statistics", "sort"} =>
    /\ Len(activities) = Len(ParsedSoFar)
    /\ \A k \in 1..Len(activities) :
         activities[k].distance = StatedDistance(RowAt(ParsedSoFar[k]))

\* load_data has kept 500 m on the track as 0.5, 1000 as 1000 and 1,500 as 1.5
C3_Witness ==
  /\ pc = "calculate_statistics"
  /\ \E i, j, k \in 1..Len(activities) :
       /\ activities[i].type = TrackRunning
       /\ activities[i].distance = FloatOfRatio(FALSE, 1, 2)
       /\ activities[j].type = Cycling
       /\ activities[j].distance = FloatOfInt(1000)
       /\ activities[k].type = Running
       /\ activities[k].distance = FloatOfRatio(FALSE, 3, 2)

-----------------------------------------------------------------------------
(* properties of main *)

\* the statements of main before report.html is opened
BeforeOpen ==
  {"parse_args", "open_csv", "load_data", "calculate_statistics", "sort",
   "get_template", "render"}

\* C8: report.html is opened only after the input is loaded, the statistics are
\* computed and the template is rendered; a run that ends before that leaves
\* report.html untouched and prints no confirmation.
C8_ReportOpenedAfterRender ==
  /\ report # "untouched" =>
       /\ pos = Len(lines)
       /\ stats # <<>>
       /\ output_html = <<activities, stats>>
       /\ pc \notin BeforeOpen
       /\ error.at \notin BeforeOpen
  /\ (pc = "failed" /\ error.at \in BeforeOpen) => report = "untouched" /\ ~confirmed
  /\ confirmed => report = "written"

\* rendering failed on a file with a kept row
C8_Witness ==
  /\ pc = "failed"
  /\ error.at = "render"
  /\ Len(activities) > 0
  /\ report = "untouched"
  /\ ~confirmed

-----------------------------------------------------------------------------
(* properties of calculate_statistics: these hold of the state in which it has
   returned and main has not yet sorted the activities, pc = "sort" *)

\* the sum of the floats f[1], ..., f[n]
RECURSIVE SumFloat(_, _)
SumFloat(f, n) == IF n = 0 THEN FZero ELSE FAdd(SumFloat(f, n - 1), f[n])

\* the sum of the integers f[1], ..., f[n]
RECURSIVE SumInt(_, _)
SumInt(f, n) == IF n = 0 THEN 0 ELSE SumInt(f, n - 1) + f[n]

\* the sum of the timedeltas f[1], ..., f[n]
RECURSIVE SumDelta(_, _)
SumDelta(f, n) == IF n = 0 THEN DeltaZero ELSE DeltaAdd(SumDelta(f, n - 1), f[n])

\* C4: the totals are the sums over the records, total_activities is their
\* number, the keys of activity_types are the types present, and the per-type
\* counts, distances and durations add up to the totals.
C4_TotalsAndTypeSums ==
  pc = "sort" =>
    LET n == Len(activities)
        t == stats.activity_types
    IN  /\ stats.total_distance = SumFloat([i \in 1..n |-> activities[i].distance], n)
        /\ stats.total_duration = SumDelta([i \in 1..n |-> activities[i].time], n)
        /\ stats.total_calories = SumInt([i \in 1..n |-> activities[i].calories], n)
        /\ stats.total_activities = n
        /\ Keys(t) = {activities[i].type : i \in 1..n}
        /\ Cardinality(Keys(t)) = Len(t)
        /\ SumInt([k \in 1..Len(t) |-> t[k].count], Len(t)) = stats.total_activities
        /\ SumDelta([k \in 1..Len(t) |-> t[k].duration], Len(t)) = stats.total_duration
        /\ SumFloat([k \in 1..Len(t) |-> t[k].distance], Len(t)) = stats.total_distance

\* C5: the cumulative series has one entry per record, in ascending date order,
\* its totals never decrease, and its last total is total_distance.
C5_CumulativeSeries ==
  pc = "sort" =>
    LET c == stats.cumulative
        n == Len(activities)
    IN  /\ Len(c) = n
        /\ c = [k \in 1..n |-> [date  |-> sorted_by_date(activities)[k].date_display,
                                total |-> c[k].total]]
        /\ \A k \in 1..(n - 1) : ~FLess(c[k + 1].total, c[k].total)
        /\ n > 0 => c[n].total = stats.total_distance

\* the pace of the record is present: it parses to a decimal value, 0 included
PacePresent(act) == ~parse_pace_decimal(act.avg_pace).none

\* C9: the scatter series holds one point, in input order, for each record with
\* a present pace, a positive heart rate and a type containing "Running", a
\* pace of 0:00 being present.
C9_ScatterKeepsZeroPace ==
  pc = "sort" =>
    LET pts == SelectSeq(activities, LAMBDA act :
                 PacePresent(act) /\ act.avg_hr > 0 /\ Contains(Running, act.type))
    IN  stats.scatter_data =
          [k \in 1..Len(pts) |-> [x     |-> parse_pace_decimal(pts[k].avg_pace).val,
                                  y     |-> pts[k].avg_hr,
                                  type  |-> pts[k].type,
                                  title |-> pts[k].title,
                                  date  |-> pts[k].date_display]]

AggregateKeys ==
  {"total_distance", "total_duration", "total_calories", "total_activities",
   "activity_types", "monthly", "cumulative", "scatter_data", "cadence_dist",
   "top_distance", "top_climb", "hr_zones"}

\* C10: the value returned has every aggregate field, for the empty sequence
\* too, and the values of monthly add up to total_distance.
C10_EveryAggregatePresent ==
  pc = "sort" =>
    /\ AggregateKeys \subseteq DOMAIN stats
    /\ LET m == stats.monthly
       IN  SumFloat([k \in 1..Len(m) |-> m[k].val], Len(m)) = stats.total_distance

-----------------------------------------------------------------------------
(* the leaderboards *)

\* The records of acts that have fewer than five records ahead of them, the
\* one with k - 1 ahead in place k: a record is ahead of another when its key
\* is larger, or equal and it comes earlier in acts.
Leaders(acts, larger(_, _)) ==
  LET n == Len(acts)
      ahead(i) == {j \in 1..n : \/ larger(acts[j], acts[i])
                               \/ (~larger(acts[i], acts[j]) /\ j < i)}
  IN  [k \in 1..(IF n < 5 THEN n ELSE 5) |->
         acts[CHOOSE i \in 1..n : Cardinality(ahead(i)) = k - 1]]

\* C6: top_distance holds the min(5, N) records of largest distance, largest
\* first, top_climb the same for ascent, and records of equal key keep their
\* input order, also where a tie decides the fifth place.
C6_TopFiveStable ==
  pc = "sort" =>
    /\ stats.top_distance = Leaders(activities, LAMBDA a, b : FLess(b.distance, a.distance))
    /\ stats.top_climb = Leaders(activities, LAMBDA a, b : b.ascent < a.ascent)

\* six records of one distance: the fifth is on the board and the sixth, with
\* another title, is not
C6_Witness ==
  /\ pc = "sort"
  /\ Len(activities) = 6
  /\ \A i \in 1..6 : activities[i].distance = activities[1].distance
  /\ activities[5].title # activities[6].title
  /\ Len(stats.top_distance) = 5
  /\ stats.top_distance[5].title = activities[5].title
  /\ stats.top_climb[1].ascent = 20

-----------------------------------------------------------------------------
(* the heart-rate zones *)

\* the lower bounds of Z1..Z5 in tenths of a beat
ZoneBounds == <<1160, 1292, 1424, 1556, 1688>>

\* the zone C7 states for a record, 0 for none
StatedZone(act) ==
  IF Contains(Running, act.type) /\ act.avg_hr > 40
  THEN IF 10 * act.avg_hr < ZoneBounds[1] THEN 1
       ELSE CHOOSE z \in 1..5 :
              /\ ZoneBounds[z] <= 10 * act.avg_hr
              /\ \A y \in (z + 1)..5 : ZoneBounds[y] > 10 * act.avg_hr
  ELSE 0

\* C7: a record is counted in one zone when its type contains "Running" and its
\* heart rate is above 40, in none otherwise; the zone is the highest whose
\* lower bound is at most the heart rate, and Z1 from 41 up to 116.
C7_ZoneOfEachRecord ==
  pc = "sort" =>
    stats.hr_zones =
      [z \in 1..5 |-> Cardinality({i \in 1..Len(activities) : StatedZone(activities[i]) = z})]

\* a run at 40 bpm is in no zone and a run at 116 bpm, on the bound, is in Z1
C7_Witness ==
  /\ pc = "sort"
  /\ Len(activities) = 2
  /\ activities[1].avg_hr = 40
  /\ activities[2].avg_hr = 116
  /\ stats.hr_zones = <<1, 0, 0, 0, 0>>

====
